---- MODULE Spec2Model ----
(***************************************************************************)
(* The file-inventory page (src/src/pages/Files.tsx, FilesPage): the       *)
(* component state, its handlers, the continuations that run when a        *)
(* network call settles, and the storage service the page talks to.        *)
(*                                                                         *)
(* JavaScript runs every handler, and every continuation after an await,   *)
(* to completion on one thread, so each is one action.  The requests that  *)
(* have not settled are kept in the bag net and settle in any order.       *)
(*                                                                         *)
(* Left out: storagePath with fetchPath, and dragActive with handleDrag.   *)
(* storagePath is written by fetchPath and read nowhere; dragActive only   *)
(* selects a CSS class.  No other state of the page reads or writes them.  *)
(***************************************************************************)
EXTENDS Integers, Sequences, FiniteSets, Bags, TLC

VARIABLES
    user,              \* useAuth().user is set
    files,             \* useState<MediaFile[]>
    stats,             \* useState<FileStats | null>: <<>> is null
    isLoading,
    isUploading,
    selectedCategory,
    searchQuery,
    net,               \* bag of the requests that have not settled yet
    srvFiles,          \* the storage service's records, in listing order
    srvNextId,         \* the id the service gives the next stored blob
    gestures,          \* user gestures made so far
    toast              \* the toast raised by the step just taken, if any

vars == <<user, files, stats, isLoading, isUploading, selectedCategory,
          searchQuery, net, srvFiles, srvNextId, gestures, toast>>

---------------------------------------------------------------------------
(* Bounds *)

MaxGestures == 2      \* user gestures in one run
MaxStored == 4        \* ids the service hands out before it rejects uploads

---------------------------------------------------------------------------
(* Strings: a string is known by its characters *)

Chars ==
    ("" :> <<>>)
    @@ ("i" :> <<"i">>)
    @@ ("I" :> <<"I">>)
    @@ ("m" :> <<"m">>)
    @@ ("ii" :> <<"i", "i">>)
    @@ ("iI" :> <<"i", "I">>)
    @@ ("im" :> <<"i", "m">>)
    @@ ("Ii" :> <<"I", "i">>)
    @@ ("II" :> <<"I", "I">>)
    @@ ("Im" :> <<"I", "m">>)
    @@ ("mi" :> <<"m", "i">>)
    @@ ("mI" :> <<"m", "I">>)
    @@ ("mm" :> <<"m", "m">>)
    @@ ("all" :> <<"a", "l", "l">>)
    @@ ("images" :> <<"i", "m", "a", "g", "e", "s">>)
    @@ ("Images" :> <<"I", "m", "a", "g", "e", "s">>)
    @@ ("documents" :> <<"d", "o", "c", "u", "m", "e", "n", "t", "s">>)
    @@ ("videos" :> <<"v", "i", "d", "e", "o", "s">>)
    @@ ("audios" :> <<"a", "u", "d", "i", "o", "s">>)

Strings == DOMAIN Chars

\* the lower-case form of one character
lowerChar(c) == CASE c = "I" -> "i" [] c = "M" -> "m" [] c = "A" -> "a" [] OTHER -> c

lowered == [s \in Strings |->
               CHOOSE t \in Strings :
                   Chars[t] = [i \in 1..Len(Chars[s]) |-> lowerChar(Chars[s][i])]]

\* String.prototype.toLowerCase
toLowerCase(s) == lowered[s]

\* String.prototype.includes: t occurs in s as a contiguous run
includes(s, t) ==
    \E i \in 0..(Len(Chars[s]) - Len(Chars[t])) :
        \A j \in 1..Len(Chars[t]) : Chars[s][i + j] = Chars[t][j]

---------------------------------------------------------------------------
(* Records *)

undefined == -1       \* is_permanent?: number, the field is absent

MediaFile(id, name, cat, proc, perm) ==
    [id |-> id, original_name |-> name, category |-> cat,
     processed |-> proc, is_permanent |-> perm]

\* is_permanent as a JavaScript truth value: undefined and 0 are falsy
truthy(v) == v # undefined /\ v # 0

\* the tabs of the page that the model selects
TabValues == {"all", "images", "documents"}

\* the texts the model types into the search box
SearchTexts == {"", "I"}

\* the sizes of the batches the model uploads
BatchSizes == {0, 2}

---------------------------------------------------------------------------
(* Requests and reports *)

Request(kind, cat, id, n, via, want) ==
    [kind |-> kind, cat |-> cat, id |-> id, n |-> n, via |-> via, want |-> want,
     resp |-> <<>>]

ReqFiles(cat) == Request("files", cat, 0, 0, "", FALSE)
ReqStats == Request("stats", "", 0, 0, "", FALSE)
ReqUpload(n, via, cat) == Request("upload", cat, 0, n, via, FALSE)
ReqKnowledge(id) == Request("knowledge", "", id, 0, "", FALSE)
ReqDelete(id) == Request("delete", "", id, 0, "", FALSE)
ReqPermanent(id, want) == Request("permanent", "", id, 0, "", want)

One(m) == SetToBag({m})
Issue(bag, reqs) == bag (+) reqs
Settled(bag, m) == bag (-) One(m)
Pending(kind) == {m \in BagToSet(net) : m.kind = kind}

\* how a call can end: resolved, rejected by the service, or lost on the way
Outcomes == {"ok", "status", "transport"}

\* apiFetch (src/lib/api is not among the sources): resolves with the parsed
\* body on a success status, throws on a non-success status and on a
\* transport error
apiFetchThrows(outcome) == outcome # "ok"

\* fetch rejects on a transport error; `if (!response.ok) throw` in both
\* upload paths
uploadThrows(outcome) == outcome = "transport" \/ outcome = "status"

NoToast == [level |-> "none", text |-> "", args |-> <<>>]
Toast(level, text, args) == [level |-> level, text |-> text, args |-> args]

---------------------------------------------------------------------------
(* Derived values of a render *)

\* const filteredFiles = files.filter(...)
filtered(S, q) ==
    SelectSeq(S, LAMBDA f :
        \/ includes(toLowerCase(f.original_name), toLowerCase(q))
        \/ includes(f.category, toLowerCase(q)))

filteredFiles == filtered(files, searchQuery)

\* the cards that carry buttons: none while "Loading files..." is shown
Cards == IF isLoading THEN {} ELSE {filteredFiles[i] : i \in 1..Len(filteredFiles)}

---------------------------------------------------------------------------
(* The storage service *)

\* what the service stores for the blob that gets id i
nameOfId(i) == IF i % 2 = 1 THEN "Im" ELSE "mm"
categoryOfId(i) == IF i % 2 = 1 THEN "images" ELSE "documents"

InitialFiles ==
    << MediaFile(1, nameOfId(1), categoryOfId(1), FALSE, undefined),
       MediaFile(2, nameOfId(2), categoryOfId(2), FALSE, 1) >>

\* GET /api/files[?category=C]
Listing(cat) ==
    IF cat = "all" THEN srvFiles
    ELSE SelectSeq(srvFiles, LAMBDA r : r.category = cat)

Stored(id) == \E i \in 1..Len(srvFiles) : srvFiles[i].id = id

\* POST /api/files/upload: n blobs stored under the next n ids
StoreBatch(n) ==
    srvFiles \o [k \in 1..n |->
        MediaFile(srvNextId + k - 1, nameOfId(srvNextId + k - 1),
                  categoryOfId(srvNextId + k - 1), FALSE, undefined)]

\* the values the service may return as the canonical is_permanent
CanonicalPermanent == {0, 1, 2}

---------------------------------------------------------------------------
(* State updates the handlers apply *)

\* setFiles(prev => prev.filter(f => f.id !== id))
RemoveById(prev, id) == SelectSeq(prev, LAMBDA f : f.id # id)

\* setFiles(prev => prev.map(f => f.id === id ? { ...f, is_permanent: v } : f))
PatchPermanent(prev, id, v) ==
    [i \in 1..Len(prev) |->
        IF prev[i].id = id THEN [prev[i] EXCEPT !.is_permanent = v] ELSE prev[i]]

\* faulty variant: the url never carries the category
FetchFilesRequest_Unfiltered(cat) == ReqFiles("all")

\* the url of fetchFiles: the category filter it carries
FetchFilesRequest(cat) == ReqFiles(cat)

\* the body of useEffect once user is set: fetchFiles(); fetchStats()
EffectRequests(cat) == One(FetchFilesRequest(cat)) (+) One(ReqStats)

\* fetchFiles(); fetchStats() after an upload went through
ReloadRequests(cat) == One(FetchFilesRequest(cat)) (+) One(ReqStats)

\* the selectedCategory that the fetchFiles closure of handleDrop reads:
\* useCallback(..., []) keeps the closure of the first render
DropClosureCategory == "all"

\* toast.success of the two upload paths
UploadSuccessToast(m) ==
    IF m.via = "picker"
    THEN Toast("success", "Uploaded ${fileList.length} files successfully", <<m.n>>)
    ELSE Toast("success", "Files uploaded", <<>>)

\* toast.error of the two upload paths
UploadFailureToast(m) ==
    IF m.via = "picker"
    THEN Toast("error", "Failed to upload files", <<>>)
    ELSE Toast("error", "Upload failed", <<>>)

---------------------------------------------------------------------------
(* Initial state: the page is mounted, useAuth has not produced a user *)

Init ==
    /\ user = FALSE
    /\ files = <<>>
    /\ stats = <<>>
    /\ isLoading = FALSE
    /\ isUploading = FALSE
    /\ selectedCategory = "all"
    /\ searchQuery = ""
    /\ net = EmptyBag
    /\ srvFiles = InitialFiles
    /\ srvNextId = Len(InitialFiles) + 1
    /\ gestures = 0
    /\ toast = NoToast

Gesture == gestures < MaxGestures /\ gestures' = gestures + 1

---------------------------------------------------------------------------
(* useEffect, [user, selectedCategory] *)

\* useAuth delivers the user: the effect runs with the category selected then
UserArrives ==
    /\ ~user
    /\ user' = TRUE
    /\ isLoading' = TRUE
    /\ net' = Issue(net, EffectRequests(selectedCategory))
    /\ toast' = NoToast
    /\ UNCHANGED <<files, stats, isUploading, selectedCategory, searchQuery,
                   srvFiles, srvNextId, gestures>>

\* onValueChange={setSelectedCategory}, then the effect of the new render
SelectCategory(c) ==
    /\ Gesture
    /\ c # selectedCategory
    /\ selectedCategory' = c
    /\ IF user
       THEN /\ isLoading' = TRUE
            /\ net' = Issue(net, EffectRequests(c))
       ELSE UNCHANGED <<isLoading, net>>
    /\ toast' = NoToast
    /\ UNCHANGED <<user, files, stats, isUploading, searchQuery, srvFiles, srvNextId>>

\* faulty variant: searchQuery is among the dependencies of the effect
SearchRequests_InDeps(cat) == IF user THEN EffectRequests(cat) ELSE EmptyBag

\* what a new search text issues: the dependencies of the effect are
\* [user, selectedCategory], so the effect does not run and nothing is sent
SearchRequests(cat) == EmptyBag

\* onChange={(e) => setSearchQuery(e.target.value)}
Search(q) ==
    /\ Gesture
    /\ q # searchQuery
    /\ searchQuery' = q
    /\ net' = Issue(net, SearchRequests(selectedCategory))
    /\ toast' = NoToast
    /\ UNCHANGED <<user, files, stats, isLoading, isUploading, selectedCategory,
                   srvFiles, srvNextId>>

---------------------------------------------------------------------------
(* fetchFiles, fetchStats: the continuations *)

\* the service answers GET /api/files with the listing of that moment
ServeFiles(m) ==
    /\ m.kind = "files" /\ m.resp = <<>>
    /\ net' = Issue(Settled(net, m), One([m EXCEPT !.resp = <<Listing(m.cat)>>]))
    /\ toast' = NoToast
    /\ UNCHANGED <<user, files, stats, isLoading, isUploading, selectedCategory,
                   searchQuery, srvFiles, srvNextId, gestures>>

\* faulty variant: a response for a category that is no longer selected is dropped
FilesAfterFetch_Guarded(prev, m, outcome) ==
    IF apiFetchThrows(outcome) \/ m.cat # selectedCategory THEN prev ELSE m.resp[1]

\* faulty variant: a failed fetch empties the list
FilesAfterFetch_Cleared(prev, m, outcome) ==
    IF apiFetchThrows(outcome) THEN <<>> ELSE m.resp[1]

\* setFiles(data) unless apiFetch threw
FilesAfterFetch(prev, m, outcome) ==
    IF apiFetchThrows(outcome) THEN prev ELSE m.resp[1]

\* try { setFiles(data) } catch { } finally { setIsLoading(false) }
FetchFilesSettles(m, outcome) ==
    /\ m.kind = "files"
    /\ apiFetchThrows(outcome) \/ m.resp # <<>>
    /\ files' = FilesAfterFetch(files, m, outcome)
    /\ isLoading' = FALSE
    /\ net' = Settled(net, m)
    /\ toast' = NoToast
    /\ UNCHANGED <<user, stats, isUploading, selectedCategory, searchQuery,
                   srvFiles, srvNextId, gestures>>

\* setStats(data) unless apiFetch threw
StatsAfterFetch(prev, outcome) ==
    IF apiFetchThrows(outcome) THEN prev ELSE << [totalFiles |-> Len(srvFiles)] >>

FetchStatsSettles(m, outcome) ==
    /\ m.kind = "stats"
    /\ stats' = StatsAfterFetch(stats, outcome)
    /\ net' = Settled(net, m)
    /\ toast' = NoToast
    /\ UNCHANGED <<user, files, isLoading, isUploading, selectedCategory,
                   searchQuery, srvFiles, srvNextId, gestures>>

---------------------------------------------------------------------------
(* Upload: handleFileUpload (picker) and handleDrop *)

\* faulty variant: one transfer for every blob
UploadRequests_PerFile(n, via, cat) ==
    [r \in {ReqUpload(1, via, cat)} |-> n]

\* formData.append('files', file) for every blob, then one fetch
UploadRequests(n, via, cat) == One(ReqUpload(n, via, cat))

\* faulty variant: the reload is issued whether or not the transfer went through
UploadFollowUp_Always(m, outcome) == ReloadRequests(m.cat)

\* what the continuation issues once the transfer settled
UploadFollowUp(m, outcome) ==
    IF uploadThrows(outcome) THEN EmptyBag ELSE ReloadRequests(m.cat)

\* faulty variant: the flag is reset after the success toast, not in finally
UploadingAfterSettle_OnSuccess(m, outcome) ==
    IF uploadThrows(outcome) THEN isUploading ELSE FALSE

\* finally { setIsUploading(false) }, .finally(() => setIsUploading(false))
UploadingAfterSettle(m, outcome) == FALSE

\* faulty variant: a gesture is dropped while a transfer is outstanding
SubmitsBatch_WhenIdle(n) == n > 0 /\ ~isUploading

\* the only test before a batch is submitted:
\* `if (!fileList || fileList.length === 0) return` in handleFileUpload,
\* `if (e.dataTransfer.files && e.dataTransfer.files.length > 0)` in handleDrop;
\* isUploading is not read
SubmitsBatch(n) == n > 0

HandleFileUpload(n) ==
    /\ Gesture
    /\ IF ~SubmitsBatch(n)
       THEN UNCHANGED <<isUploading, net>>
       ELSE /\ isUploading' = TRUE
            /\ net' = Issue(net, UploadRequests(n, "picker", selectedCategory))
    /\ toast' = NoToast
    /\ UNCHANGED <<user, files, stats, isLoading, selectedCategory, searchQuery,
                   srvFiles, srvNextId>>

HandleDrop(n) ==
    /\ Gesture
    /\ IF SubmitsBatch(n)
       THEN /\ isUploading' = TRUE
            /\ net' = Issue(net, UploadRequests(n, "drop", DropClosureCategory))
       ELSE UNCHANGED <<isUploading, net>>
    /\ toast' = NoToast
    /\ UNCHANGED <<user, files, stats, isLoading, selectedCategory, searchQuery,
                   srvFiles, srvNextId>>

\* the transfer settles: try / catch / finally of handleFileUpload,
\* then / catch / finally of handleDrop
UploadSettles(m, outcome) ==
    /\ m.kind = "upload"
    /\ IF uploadThrows(outcome)
       THEN /\ toast' = UploadFailureToast(m)
            /\ UNCHANGED <<isLoading, srvFiles, srvNextId>>
       ELSE /\ srvNextId + m.n - 1 <= MaxStored
            /\ srvFiles' = StoreBatch(m.n)
            /\ srvNextId' = srvNextId + m.n
            /\ isLoading' = TRUE
            /\ toast' = UploadSuccessToast(m)
    /\ net' = Issue(Settled(net, m), UploadFollowUp(m, outcome))
    /\ isUploading' = UploadingAfterSettle(m, outcome)
    /\ UNCHANGED <<user, files, stats, selectedCategory, searchQuery, gestures>>

---------------------------------------------------------------------------
(* handleProcessKnowledge *)

HandleProcessKnowledge(id) ==
    /\ Gesture
    /\ \E f \in Cards : f.id = id
    /\ net' = Issue(net, One(ReqKnowledge(id)))
    /\ toast' = Toast("loading", "Processing file for Knowledge Bank...", <<>>)
    /\ UNCHANGED <<user, files, stats, isLoading, isUploading, selectedCategory,
                   searchQuery, srvFiles, srvNextId>>

\* faulty variant: the page marks the record itself once the call went through
FilesAfterKnowledge_Marked(prev, m, outcome) ==
    IF apiFetchThrows(outcome) THEN prev
    ELSE [i \in 1..Len(prev) |->
             IF prev[i].id = m.id THEN [prev[i] EXCEPT !.processed = TRUE] ELSE prev[i]]

\* the list after the POST settled: handleProcessKnowledge never calls setFiles
FilesAfterKnowledge(prev, m, outcome) == prev

\* the service's pipeline marks the stored record; the page is told only
\* how the call ended
KnowledgeSettles(m, outcome) ==
    /\ m.kind = "knowledge"
    /\ IF apiFetchThrows(outcome)
       THEN /\ toast' = Toast("error", "Failed to process file", <<>>)
            /\ UNCHANGED srvFiles
       ELSE /\ Stored(m.id)
            /\ srvFiles' = [i \in 1..Len(srvFiles) |->
                   IF srvFiles[i].id = m.id
                   THEN [srvFiles[i] EXCEPT !.processed = TRUE] ELSE srvFiles[i]]
            /\ toast' = Toast("success", "Added to Knowledge Bank", <<>>)
    /\ files' = FilesAfterKnowledge(files, m, outcome)
    /\ net' = Settled(net, m)
    /\ UNCHANGED <<user, stats, isLoading, isUploading, selectedCategory,
                   searchQuery, srvNextId, gestures>>

---------------------------------------------------------------------------
(* handleDelete *)

\* faulty variant: the DELETE is sent without looking at the answer to the prompt
DeleteRequests_Unconfirmed(id, confirmed) == One(ReqDelete(id))

\* `if (!confirm('Delete this file?')) return`, then the DELETE
DeleteRequests(id, confirmed) == IF confirmed THEN One(ReqDelete(id)) ELSE EmptyBag

HandleDelete(id, confirmed) ==
    /\ Gesture
    /\ \E f \in Cards : f.id = id
    /\ net' = Issue(net, DeleteRequests(id, confirmed))
    /\ toast' = NoToast
    /\ UNCHANGED <<user, files, stats, isLoading, isUploading, selectedCategory,
                   searchQuery, srvFiles, srvNextId>>

\* faulty variant: the comparison of the filter is inverted
FilesAfterDelete_Inverted(prev, id, outcome) ==
    IF apiFetchThrows(outcome) THEN prev ELSE SelectSeq(prev, LAMBDA f : f.id = id)

\* faulty variant: the record is dropped whether or not the DELETE went through
FilesAfterDelete_Optimistic(prev, id, outcome) == RemoveById(prev, id)

\* the list after the DELETE settled
FilesAfterDelete(prev, id, outcome) ==
    IF apiFetchThrows(outcome) THEN prev ELSE RemoveById(prev, id)

\* what the continuation of handleDelete issues: fetchStats() on success
DeleteFollowUp(outcome) == IF apiFetchThrows(outcome) THEN EmptyBag ELSE One(ReqStats)

\* faulty variant: the count of the snapshot is adjusted on the spot
StatsAfterDelete_Recomputed(prev, outcome) ==
    IF apiFetchThrows(outcome) \/ prev = <<>> THEN prev
    ELSE << [totalFiles |-> prev[1].totalFiles - 1] >>

\* the snapshot after the DELETE settled: handleDelete calls fetchStats(),
\* never setStats
StatsAfterDelete(prev, outcome) == prev

DeleteSettles(m, outcome) ==
    /\ m.kind = "delete"
    /\ IF apiFetchThrows(outcome)
       THEN /\ toast' = Toast("error", "Failed to delete file", <<>>)
            /\ UNCHANGED srvFiles
       ELSE /\ Stored(m.id)
            /\ srvFiles' = RemoveById(srvFiles, m.id)
            /\ toast' = Toast("success", "File deleted", <<>>)
    /\ files' = FilesAfterDelete(files, m.id, outcome)
    /\ stats' = StatsAfterDelete(stats, outcome)
    /\ net' = Issue(Settled(net, m), DeleteFollowUp(outcome))
    /\ UNCHANGED <<user, isLoading, isUploading, selectedCategory,
                   searchQuery, srvNextId, gestures>>

---------------------------------------------------------------------------
(* handleTogglePermanent *)

\* onClick={() => handleTogglePermanent(file.id, file.is_permanent === 1)}
currentStatus(f) == f.is_permanent = 1

\* body: JSON.stringify({ isPermanent: !currentStatus })
HandleTogglePermanent(id) ==
    /\ Gesture
    /\ \E f \in Cards :
          /\ f.id = id
          /\ net' = Issue(net, One(ReqPermanent(id, ~currentStatus(f))))
    /\ toast' = NoToast
    /\ UNCHANGED <<user, files, stats, isLoading, isUploading, selectedCategory,
                   searchQuery, srvFiles, srvNextId>>

\* faulty variant: the record is patched with the value that was asked for
FilesAfterPermanent_Requested(prev, m, outcome, v) ==
    IF apiFetchThrows(outcome) THEN prev
    ELSE PatchPermanent(prev, m.id, IF m.want THEN 1 ELSE 0)

\* the list after the PUT settled; v is res.is_permanent
FilesAfterPermanent(prev, m, outcome, v) ==
    IF apiFetchThrows(outcome) THEN prev ELSE PatchPermanent(prev, m.id, v)

\* faulty variant: a failed PUT is sent again
PermanentFollowUp_Retry(m, outcome) ==
    IF apiFetchThrows(outcome) THEN One(m) ELSE EmptyBag

\* what the continuation of handleTogglePermanent issues: nothing
PermanentFollowUp(m, outcome) == EmptyBag

PermanentSettles(m, outcome) ==
    /\ m.kind = "permanent"
    /\ IF apiFetchThrows(outcome)
       THEN /\ toast' = Toast("error", "Failed to update file status", <<>>)
            /\ files' = FilesAfterPermanent(files, m, outcome, undefined)
            /\ UNCHANGED srvFiles
       ELSE /\ Stored(m.id)
            /\ \E v \in CanonicalPermanent :
                  /\ srvFiles' = PatchPermanent(srvFiles, m.id, v)
                  /\ files' = FilesAfterPermanent(files, m, outcome, v)
                  /\ toast' = Toast("success",
                                    IF truthy(v) THEN "File marked as permanent"
                                    ELSE "File unmarked as permanent", <<>>)
    /\ net' = Issue(Settled(net, m), PermanentFollowUp(m, outcome))
    /\ UNCHANGED <<user, stats, isLoading, isUploading, selectedCategory,
                   searchQuery, srvNextId, gestures>>

---------------------------------------------------------------------------
(* The page and the service together *)

Next ==
    \/ UserArrives
    \/ \E c \in TabValues : SelectCategory(c)
    \/ \E q \in SearchTexts : Search(q)
    \/ \E n \in BatchSizes : HandleFileUpload(n)
    \/ \E n \in BatchSizes : HandleDrop(n)
    \/ \E f \in Cards : HandleProcessKnowledge(f.id)
    \/ \E f \in Cards : \E confirmed \in BOOLEAN : HandleDelete(f.id, confirmed)
    \/ \E f \in Cards : HandleTogglePermanent(f.id)
    \/ \E m \in Pending("files") : ServeFiles(m)
    \/ \E m \in Pending("files") : \E outcome \in Outcomes : FetchFilesSettles(m, outcome)
    \/ \E m \in Pending("stats") : \E outcome \in Outcomes : FetchStatsSettles(m, outcome)
    \/ \E m \in Pending("upload") : \E outcome \in Outcomes : UploadSettles(m, outcome)
    \/ \E m \in Pending("knowledge") : \E outcome \in Outcomes : KnowledgeSettles(m, outcome)
    \/ \E m \in Pending("delete") : \E outcome \in Outcomes : DeleteSettles(m, outcome)
    \/ \E m \in Pending("permanent") : \E outcome \in Outcomes : PermanentSettles(m, outcome)

Spec == Init /\ [][Next]_vars

\* a call of the page is answered or settles
NetworkSettles ==
    \/ \E m \in Pending("files") : ServeFiles(m)
    \/ \E m \in Pending("files") : \E outcome \in Outcomes : FetchFilesSettles(m, outcome)
    \/ \E m \in Pending("stats") : \E outcome \in Outcomes : FetchStatsSettles(m, outcome)
    \/ \E m \in Pending("upload") : \E outcome \in Outcomes : UploadSettles(m, outcome)
    \/ \E m \in Pending("knowledge") : \E outcome \in Outcomes : KnowledgeSettles(m, outcome)
    \/ \E m \in Pending("delete") : \E outcome \in Outcomes : DeleteSettles(m, outcome)
    \/ \E m \in Pending("permanent") : \E outcome \in Outcomes : PermanentSettles(m, outcome)

\* the page with a network that does not hold calls back for ever: every
\* promise of fetch and apiFetch is settled in the end; the user is under no
\* obligation and makes MaxGestures gestures at most
SpecLive == Init /\ [][Next]_vars /\ WF_vars(NetworkSettles)

---------------------------------------------------------------------------
(* The search filter on its own: any fetched list, any search text *)

FilterNames == {"Im", "mm", "iI", "I"}
FilterCategories == {"images", "Images", "documents"}
FilterTexts == {"", "i", "I", "m", "ii", "iI", "im", "Ii", "II", "Im", "mi", "mI", "mm"}

FilterRecords(id) ==
    {MediaFile(id, name, cat, FALSE, undefined) :
        name \in FilterNames, cat \in FilterCategories}

FetchedLists ==
    {<<r>> : r \in FilterRecords(1)}
        \cup {<<r1, r2>> : r1 \in FilterRecords(1), r2 \in FilterRecords(2)}

InitFilter ==
    /\ user = TRUE
    /\ files \in FetchedLists
    /\ srvFiles = files
    /\ srvNextId = Len(files) + 1
    /\ stats = <<>>
    /\ isLoading = FALSE
    /\ isUploading = FALSE
    /\ selectedCategory = "all"
    /\ searchQuery = ""
    /\ net = EmptyBag
    /\ gestures = 0
    /\ toast = NoToast

NextFilter == \E q \in FilterTexts : Search(q)

SpecFilter == InitFilter /\ [][NextFilter]_vars

---------------------------------------------------------------------------
(* formatFileSize, and the "Storage Usage" card that calls it *)

k == 1024
sizes == <<"Bytes", "KB", "MB", "GB">>

\* A byte count is held by its digits to the base k, b[j] weighing k^j, since
\* the counts of interest pass the width of the integers TLC computes with;
\* five digits keep every count below 2^53, where a JavaScript number is exact.
SizeDigits == {0, 1, 3, 128, 512, 1023}
ByteCounts == [0..4 -> SizeDigits]

\* bytes === 0
isZero(bytes) == \A j \in DOMAIN bytes : bytes[j] = 0

\* Math.floor(Math.log(bytes) / Math.log(k)): for a count of five digits the
\* floored quotient of the logarithms is the place of the highest digit that
\* is not 0
unitIndex(bytes) ==
    CHOOSE i \in DOMAIN bytes :
        /\ bytes[i] # 0
        /\ \A j \in DOMAIN bytes : j > i => bytes[j] = 0

\* the whole part of 200 * (bytes mod k^i) / k^i, digit by digit from place j
RECURSIVE scaledCarry(_, _, _, _)
scaledCarry(bytes, j, i, c) ==
    IF j >= i THEN c ELSE scaledCarry(bytes, j + 1, i, (200 * bytes[j] + c) \div k)

\* (bytes / Math.pow(k, i)).toFixed(2), counted in hundredths: the quotient
\* is exact, toFixed rounds it to the nearest hundredth, a tie upwards
toFixed(bytes, i) ==
    100 * bytes[i] + (scaledCarry(bytes, 0, i, 0) + 1) \div 2

\* the decimal digits of a natural number
RECURSIVE digitsOf(_)
digitsOf(n) ==
    LET d == <<"0", "1", "2", "3", "4", "5", "6", "7", "8", "9">>
    IN  IF n < 10 THEN <<d[n + 1]>> ELSE digitsOf(n \div 10) \o <<d[(n % 10) + 1]>>

\* parseFloat(...) + '': the number of h hundredths written without trailing
\* zeros
numberText(h) ==
    LET whole == h \div 100
        frac == h % 100
    IN  IF frac = 0 THEN digitsOf(whole)
        ELSE IF frac % 10 = 0 THEN digitsOf(whole) \o <<".">> \o digitsOf(frac \div 10)
        ELSE digitsOf(whole) \o <<".">> \o digitsOf(frac \div 10) \o digitsOf(frac % 10)

\* sizes[i] in a string concatenation: an index outside the array gives
\* undefined, which is written out as the word
unitText(i) == IF i + 1 \in DOMAIN sizes THEN sizes[i + 1] ELSE "undefined"

\* the text is the characters of the number, a blank, and the unit
formatFileSize(bytes) ==
    IF isZero(bytes) THEN <<"0", " ", "Bytes">>
    ELSE numberText(toFixed(bytes, unitIndex(bytes))) \o <<" ", unitText(unitIndex(bytes))>>

\* {stats ? formatFileSize(stats.totalSize) : '...'}
TotalSizeText == IF stats = <<>> THEN <<"...">> ELSE formatFileSize(stats[1].totalSize)

\* the page has asked for the stats and the service has answered with a
\* snapshot of any total size
InitSize ==
    /\ \E bytes \in ByteCounts :
          net = One([ReqStats EXCEPT
                        !.resp = << [totalFiles |-> 0, totalSize |-> bytes] >>])
    /\ user = TRUE
    /\ files = <<>>
    /\ srvFiles = <<>>
    /\ srvNextId = 1
    /\ stats = <<>>
    /\ isLoading = FALSE
    /\ isUploading = FALSE
    /\ selectedCategory = "all"
    /\ searchQuery = ""
    /\ gestures = 0
    /\ toast = NoToast

\* const data = await apiFetch('/api/files/stats'); setStats(data)
StatsArrive(m) ==
    /\ m.kind = "stats" /\ m.resp # <<>>
    /\ stats' = m.resp
    /\ net' = Settled(net, m)
    /\ UNCHANGED <<user, files, isLoading, isUploading, selectedCategory,
                   searchQuery, srvFiles, srvNextId, gestures, toast>>

NextSize == \E m \in Pending("stats") : StatsArrive(m)

SpecSize == InitSize /\ [][NextSize]_vars

---------------------------------------------------------------------------
(* Claims *)

Failures == Outcomes \ {"ok"}

\* C1: whenever no inventory fetch is outstanding, every record of the local
\* list is a record the service stores in the partition of the selected
\* category (any category when "all" is selected).
C1_ListIsSelectedPartition ==
    Pending("files") = {} =>
        \A i \in 1..Len(files) :
            /\ Stored(files[i].id)
            /\ selectedCategory # "all" => files[i].category = selectedCategory

\* C2: the displayed records are records of the fetched list, and a record is
\* displayed exactly when the search text, lower-cased, occurs in its
\* lower-cased original_name or in its lower-cased category.
C2_SearchIsCaseInsensitive ==
    LET shown == filtered(files, searchQuery)
        q == toLowerCase(searchQuery)
    IN  /\ \A j \in 1..Len(shown) : \E i \in 1..Len(files) : files[i] = shown[j]
        /\ \A i \in 1..Len(files) :
              (\E j \in 1..Len(shown) : shown[j] = files[i])
                  <=> \/ includes(toLowerCase(files[i].original_name), q)
                      \/ includes(toLowerCase(files[i].category), q)

\* C3: when a retention PUT for X succeeds, the list keeps its ids in their
\* order, the record X differs from before only in is_permanent, which is the
\* value the service holds for X afterwards, every other record is the same,
\* and no inventory or stats fetch is added to the outstanding requests.
C3_PermanentPatchesOneRecord ==
    [][\A m \in Pending("permanent") :
          PermanentSettles(m, "ok") =>
              /\ Len(files') = Len(files)
              /\ \A i \in 1..Len(files) :
                    /\ files'[i].id = files[i].id
                    /\ files[i].id # m.id => files'[i] = files[i]
                    /\ files[i].id = m.id =>
                          \A x \in 1..Len(srvFiles') :
                              srvFiles'[x].id = m.id =>
                                  files'[i] = [files[i] EXCEPT
                                                 !.is_permanent = srvFiles'[x].is_permanent]
              /\ \A r \in BagToSet(net') :
                    r.kind \in {"files", "stats"} => CopiesIn(r, net') <= CopiesIn(r, net)
      ]_vars

\* a retention PUT just succeeded with a canonical value no request asks for
C3_Witness ==
    /\ toast.text \in {"File marked as permanent", "File unmarked as permanent"}
    /\ Len(files) >= 2
    /\ \E i \in 1..Len(files) : files[i].is_permanent = 2

KeptPositions(S, id) == {i \in 1..Len(S) : S[i].id # id}

NthKept(S, id, j) ==
    CHOOSE i \in KeptPositions(S, id) :
        Cardinality({x \in KeptPositions(S, id) : x <= i}) = j

\* C4: when the DELETE of X succeeds, the list right after holds no record
\* with id X and holds every other record of before, unchanged and in the
\* same relative order.
C4_DeleteRemovesOnlyX ==
    [][\A m \in Pending("delete") :
          DeleteSettles(m, "ok") =>
              /\ \A j \in 1..Len(files') : files'[j].id # m.id
              /\ Len(files') = Cardinality(KeptPositions(files, m.id))
              /\ \A j \in 1..Len(files') : files'[j] = files[NthKept(files, m.id, j)]
      ]_vars

\* a DELETE just succeeded and another record is still listed
C4_Witness ==
    /\ toast.text = "File deleted"
    /\ Len(files) >= 1

\* C5: when the DELETE of X fails, by a non-success status or a transport
\* error, the list is as before, nothing is issued and an error is reported;
\* and a listed record leaves the list only when its DELETE succeeds or an
\* inventory response replaces the list.
C5_FailedDeleteChangesNothing ==
    [][/\ \A m \in Pending("delete") : \A outcome \in Failures :
             DeleteSettles(m, outcome) =>
                 /\ files' = files
                 /\ net' = Settled(net, m)
                 /\ toast'.level = "error"
       /\ \A i \in 1..Len(files) :
             (\A j \in 1..Len(files') : files'[j].id # files[i].id) =>
                 \/ \E m \in Pending("delete") :
                       m.id = files[i].id /\ DeleteSettles(m, "ok")
                 \/ \E m \in Pending("files") : FetchFilesSettles(m, "ok")
      ]_vars

\* a DELETE just failed and the list still holds records
C5_Witness ==
    /\ toast.text = "Failed to delete file"
    /\ Len(files) >= 2

\* C6: when a retention PUT fails, the list is as before, an error is
\* reported, and the request is gone with nothing issued in its place.
C6_FailedPermanentChangesNothing ==
    [][\A m \in Pending("permanent") : \A outcome \in Failures :
          PermanentSettles(m, outcome) =>
              /\ files' = files
              /\ toast'.level = "error"
              /\ net' = Settled(net, m)
      ]_vars

\* a retention PUT just failed and the list still holds records
C6_Witness ==
    /\ toast.text = "Failed to update file status"
    /\ Len(files) >= 2

\* C7: a DELETE joins the outstanding requests only in a handleDelete step
\* whose prompt was acknowledged, for the card that was clicked; a declined
\* prompt leaves list, stats, flags and outstanding requests as they were.
C7_DeleteOnlyAfterConfirm ==
    [][/\ \A m \in {r \in BagToSet(net') : r.kind = "delete"} :
             CopiesIn(m, net') > CopiesIn(m, net) =>
                 /\ \E f \in Cards : f.id = m.id
                 /\ HandleDelete(m.id, TRUE)
       /\ \A f \in Cards :
             HandleDelete(f.id, FALSE) =>
                 UNCHANGED <<files, stats, isLoading, isUploading, net, srvFiles>>
      ]_vars

\* an acknowledged DELETE is outstanding
C7_Witness ==
    \E m \in Pending("delete") : \E i \in 1..Len(files) : files[i].id = m.id

\* C8 as stated: the uploading flag is true exactly while a transfer is
\* outstanding.
C8_UploadingWhileInFlight ==
    /\ Pending("upload") # {} => isUploading
    /\ Pending("upload") = {} => ~isUploading

\* C8 amended: a gesture with N >= 1 blobs adds exactly one transfer of N
\* parts and sets the flag; every settling transfer clears the flag; nothing
\* else clears it; and the flag is false when no transfer is outstanding.
C8_OneTransferFlagUntilSettle ==
    [][/\ \A n \in BatchSizes \ {0} :
             /\ HandleFileUpload(n) =>
                   /\ net' = net (+) One(ReqUpload(n, "picker", selectedCategory))
                   /\ isUploading'
             /\ HandleDrop(n) =>
                   /\ \E c \in TabValues : net' = net (+) One(ReqUpload(n, "drop", c))
                   /\ isUploading'
       /\ \A m \in Pending("upload") : \A outcome \in Outcomes :
             UploadSettles(m, outcome) =>
                 /\ ~isUploading'
                 /\ CopiesIn(m, net') = CopiesIn(m, net) - 1
       /\ (isUploading /\ ~isUploading') =>
             \E m \in Pending("upload") : \E outcome \in Outcomes : UploadSettles(m, outcome)
       /\ Pending("upload") = {} => ~isUploading
      ]_vars

\* a transfer of two parts is outstanding while the flag is already false
C8_Witness ==
    /\ ~isUploading
    /\ \E m \in Pending("upload") : m.n = 2

\* C9: when a transfer succeeds, the number of files is reported, one
\* inventory fetch and one stats fetch join the outstanding requests, and the
\* list is as before.
C9_SuccessReportsCountAndReloads ==
    [][\A m \in Pending("upload") :
          UploadSettles(m, "ok") =>
              /\ toast'.level = "success"
              /\ toast'.args = <<m.n>>
              /\ \E c \in TabValues :
                    net' = Settled(net, m) (+) One(ReqFiles(c)) (+) One(ReqStats)
              /\ files' = files
      ]_vars

\* C10: when a transfer fails, by a non-success status or a transport error,
\* an error without detail is reported, list and stats are as before, and the
\* transfer is gone with nothing issued in its place.
C10_FailedUploadChangesNothing ==
    [][\A m \in Pending("upload") : \A outcome \in Failures :
          UploadSettles(m, outcome) =>
              /\ toast'.level = "error"
              /\ toast'.text \in {"Failed to upload files", "Upload failed"}
              /\ toast'.args = <<>>
              /\ files' = files
              /\ stats' = stats
              /\ net' = Settled(net, m)
      ]_vars

\* a transfer just failed while list and stats were loaded
C10_Witness ==
    /\ toast.text \in {"Failed to upload files", "Upload failed"}
    /\ Len(files) >= 1
    /\ stats # <<>>

\* C11: the drop path does what the picker path does: a drop of N >= 1 blobs
\* issues the transfer the picker would issue, bound to the category selected
\* then, and sets the flag; when a transfer of the drop path settles, the
\* flag, the level and the arguments of the report and the follow-up fetches
\* are those of the picker path for the same batch and outcome.
C11_DropMatchesPicker ==
    [][/\ \A n \in BatchSizes \ {0} :
             HandleDrop(n) =>
                 /\ net' = Issue(net, UploadRequests(n, "drop", selectedCategory))
                 /\ isUploading'
       /\ \A m \in Pending("upload") : \A outcome \in Outcomes :
             (m.via = "drop" /\ UploadSettles(m, outcome)) =>
                 LET p == [m EXCEPT !.via = "picker"]
                     report == IF uploadThrows(outcome) THEN UploadFailureToast(p)
                               ELSE UploadSuccessToast(p)
                 IN  /\ toast'.level = report.level
                     /\ toast'.args = report.args
                     /\ isUploading' = UploadingAfterSettle(p, outcome)
                     /\ net' = Issue(Settled(net, m), UploadFollowUp(p, outcome))
      ]_vars

\* C12: a record that is listed before and after a step has the same
\* processed value, unless the step is an inventory response replacing the
\* list; in particular when a knowledge request settles, either way.
C12_ProcessedOnlyByFetch ==
    [][/\ \A i \in 1..Len(files) : \A j \in 1..Len(files') :
             (files'[j].id = files[i].id /\ files'[j].processed # files[i].processed) =>
                 \E m \in Pending("files") : FetchFilesSettles(m, "ok")
       /\ \A m \in Pending("knowledge") : \A outcome \in Outcomes :
             KnowledgeSettles(m, outcome) => files' = files
      ]_vars

\* a knowledge request just went through: the service holds the record as
\* processed, the list still shows it as not processed
C12_Witness ==
    /\ toast.text = "Added to Knowledge Bank"
    /\ \E i \in 1..Len(files) : \E x \in 1..Len(srvFiles) :
          /\ srvFiles[x].id = files[i].id
          /\ srvFiles[x].processed
          /\ ~files[i].processed

\* C13: the knowledge gesture reports the start at once, with the request
\* still outstanding; when the request succeeds nothing is reported and no
\* state of the page changes; when it fails an error is reported.
C13_KnowledgeIsFireAndForget ==
    [][/\ \A f \in Cards :
             HandleProcessKnowledge(f.id) =>
                 /\ toast'.level = "loading"
                 /\ CopiesIn(ReqKnowledge(f.id), net') = CopiesIn(ReqKnowledge(f.id), net) + 1
       /\ \A m \in Pending("knowledge") :
             /\ KnowledgeSettles(m, "ok") =>
                   /\ toast' = NoToast
                   /\ UNCHANGED <<files, stats, isLoading, isUploading>>
             /\ \A outcome \in Failures :
                   KnowledgeSettles(m, outcome) => toast'.level = "error"
      ]_vars

\* the records of S that the text q matches, whatever the case of the letters
Matching(S, q) ==
    {S[i] : i \in {x \in 1..Len(S) :
        \/ includes(toLowerCase(S[x].original_name), toLowerCase(q))
        \/ includes(toLowerCase(S[x].category), toLowerCase(q))}}

\* C14: a new search text sends nothing and leaves list, stats, selected
\* category and flags as they were; the records displayed afterwards are the
\* fetched records the text matches, in the order of the list, and filtering
\* them once more by the same text gives the same records.
C14_SearchOnlyNarrows ==
    [][\A q \in SearchTexts :
          Search(q) =>
              /\ UNCHANGED <<user, files, stats, selectedCategory, isLoading,
                             isUploading, net>>
              /\ {filteredFiles'[j] : j \in 1..Len(filteredFiles')} = Matching(files, q)
              /\ \A j1, j2 \in 1..Len(filteredFiles') :
                    j1 < j2 =>
                        \E i1, i2 \in 1..Len(files) :
                            /\ i1 < i2
                            /\ files[i1] = filteredFiles'[j1]
                            /\ files[i2] = filteredFiles'[j2]
              /\ filtered(filteredFiles', q) = filteredFiles'
      ]_vars

\* a search text is applied that hides one of the fetched records, with a
\* request still outstanding
C14_Witness ==
    /\ searchQuery = "I"
    /\ Len(files) >= 2
    /\ Len(filteredFiles) = 1
    /\ BagToSet(net) # {}

\* C15: when the selected category changes and a user is signed in, exactly
\* one inventory fetch joins the outstanding requests and it carries the new
\* category ("all" standing for no filter); when no user is signed in, the
\* change sends nothing.
C15_CategoryChangeFetchesOnce ==
    [][\A c \in TabValues :
          SelectCategory(c) =>
              IF user
              THEN /\ CopiesIn(ReqFiles(c), net') = CopiesIn(ReqFiles(c), net) + 1
                   /\ \A r \in BagToSet(net') :
                         (r.kind = "files" /\ r # ReqFiles(c)) =>
                             CopiesIn(r, net') = CopiesIn(r, net)
              ELSE net' = net
      ]_vars

\* a signed-in user just changed the category to a filtered one and the
\* fetch for it is outstanding
C15_Witness ==
    /\ user
    /\ selectedCategory = "documents"
    /\ gestures >= 1
    /\ CopiesIn(ReqFiles("documents"), net) = 1

\* C16: an inventory response that arrives is written to the list whatever
\* category is selected by then, and a category change takes no outstanding
\* request back; so a response for the previous category that arrives after
\* the response for the selected one replaces it.
C16_StaleResponseOverwrites ==
    [][/\ \A m \in Pending("files") :
             FetchFilesSettles(m, "ok") =>
                 /\ files' = m.resp[1]
                 /\ net' = Settled(net, m)
       /\ \A c \in TabValues :
             SelectCategory(c) =>
                 \A r \in BagToSet(net) : CopiesIn(r, net') >= CopiesIn(r, net)
      ]_vars

\* the only gesture was a category change made while the first fetch was in
\* flight; the response for the selected category has arrived and fills the
\* list; the answered fetch for the previous category is the one request
\* still outstanding, and it holds a record of another category
C16_Witness ==
    /\ gestures = 1
    /\ selectedCategory # "all"
    /\ ~isLoading
    /\ files # <<>>
    /\ \A i \in 1..Len(files) : files[i].category = selectedCategory
    /\ \E m \in Pending("files") :
          /\ Pending("files") = {m}
          /\ CopiesIn(m, net) = 1
          /\ m.cat # selectedCategory
          /\ m.resp # <<>>
          /\ \E x \in 1..Len(m.resp[1]) : m.resp[1][x].category # selectedCategory

\* the number of transfers among the requests of bag b
Transfers(b) ==
    BagCardinality([r \in {x \in BagToSet(b) : x.kind = "upload"} |-> CopiesIn(r, b)])

\* C17: a gesture with N >= 1 blobs adds its own transfer to the outstanding
\* requests whether or not another transfer is outstanding, and takes none
\* away; the number of outstanding transfers rises only in such a gesture,
\* by one; a settling transfer leaves every other transfer outstanding; and
\* neither the gesture nor the settling writes the list or the stats.
C17_OverlappingUploadsAreIndependent ==
    [][/\ \A n \in BatchSizes \ {0} :
             /\ HandleFileUpload(n) =>
                   /\ net' = net (+) One(ReqUpload(n, "picker", selectedCategory))
                   /\ UNCHANGED <<files, stats>>
             /\ HandleDrop(n) =>
                   /\ \E c \in TabValues : net' = net (+) One(ReqUpload(n, "drop", c))
                   /\ UNCHANGED <<files, stats>>
       /\ Transfers(net') > Transfers(net) =>
             /\ Transfers(net') = Transfers(net) + 1
             /\ \E n \in BatchSizes \ {0} : HandleFileUpload(n) \/ HandleDrop(n)
       /\ \A m \in Pending("upload") : \A outcome \in Outcomes :
             UploadSettles(m, outcome) =>
                 /\ Transfers(net') = Transfers(net) - 1
                 /\ \A r \in Pending("upload") :
                       r # m => CopiesIn(r, net') = CopiesIn(r, net)
                 /\ UNCHANGED <<files, stats>>
      ]_vars

\* two gestures overlap: two transfers are outstanding at once
C17_Witness ==
    /\ Transfers(net) = 2
    /\ gestures = 2

\* C18: no record removed by a successful DELETE is listed again.  The
\* service drops a record exactly in the step in which its DELETE succeeds,
\* which is the step that takes it off the list, and hands out no id twice;
\* so the claim is that every listed record is one the service still stores.
C18_RemovedIsTerminal ==
    \A i \in 1..Len(files) : Stored(files[i].id)

\* C19: the stats snapshot changes only in the step in which a stats
\* response arrives; a successful DELETE leaves the snapshot as it was and
\* adds one stats fetch to the outstanding requests.
C19_StatsOnlyByStatsFetch ==
    [][/\ stats' # stats =>
             \E m \in Pending("stats") : FetchStatsSettles(m, "ok")
       /\ \A m \in Pending("delete") :
             DeleteSettles(m, "ok") =>
                 /\ stats' = stats
                 /\ CopiesIn(ReqStats, net') = CopiesIn(ReqStats, net) + 1
      ]_vars

\* a DELETE just succeeded: the snapshot still counts the deleted record and
\* the stats fetch is outstanding
C19_Witness ==
    /\ toast.text = "File deleted"
    /\ stats # <<>>
    /\ stats[1].totalFiles = Len(srvFiles) + 1
    /\ CopiesIn(ReqStats, net) >= 1

\* C20: a click on the retention button of a card asks for the opposite of
\* the protection the card shows: isPermanent=true for a record whose
\* is_permanent is absent or 0, isPermanent=false for a record whose
\* is_permanent is truthy.
C20_ToggleRequestsOpposite ==
    [][\A f \in Cards :
          HandleTogglePermanent(f.id) =>
              LET r == ReqPermanent(f.id, ~truthy(f.is_permanent))
              IN  CopiesIn(r, net') = CopiesIn(r, net) + 1
      ]_vars

\* the byte count of digits d0, d1, d2 and no higher ones
Count3(d0, d1, d2) == [j \in 0..4 |-> CASE j = 0 -> d0 [] j = 1 -> d1 [] j = 2 -> d2 [] OTHER -> 0]

\* C21: 0 bytes are rendered "0 Bytes" and 3145728 bytes "3 MB"; a count
\* n > 0 is rendered as a number, a blank and a unit, where the unit is the
\* one of Bytes, KB, MB, GB at the largest place i with 1024^i <= n and the
\* number is n / 1024^i to the nearest hundredth, written without trailing
\* zeros (the nearest hundredth is tested where n is below 1024^2).
C21_FormatFileSize ==
    stats # <<>> =>
        LET n == stats[1].totalSize
            text == TotalSizeText
            i == CHOOSE p \in 0..4 : n[p] # 0 /\ \A j \in 0..4 : j > p => n[j] = 0
            number == SubSeq(text, 1, Len(text) - 2)
        IN  /\ n = Count3(0, 0, 0) => text = <<"0", " ", "Bytes">>
            /\ n = Count3(0, 0, 3) => text = <<"3", " ", "MB">>
            /\ n # Count3(0, 0, 0) =>
                  /\ text[Len(text)] \in {"Bytes", "KB", "MB", "GB"}
                  /\ i <= 3 => text[Len(text)] = <<"Bytes", "KB", "MB", "GB">>[i + 1]
                  /\ text[Len(text) - 1] = " "
                  /\ \E h \in (100 * n[i])..(100 * n[i] + 100) : number = numberText(h)
                  /\ i <= 1 =>
                        LET v == n[0] + 1024 * n[1]
                            w == IF i = 0 THEN 1 ELSE 1024
                        IN  \E h \in (100 * n[i])..(100 * n[i] + 100) :
                                /\ number = numberText(h)
                                /\ 2 * (h * w - 100 * v) <= w
                                /\ 2 * (100 * v - h * w) <= w

\* C22: when an inventory fetch fails, the list is as before; when a stats
\* fetch fails, the snapshot is as before; and when an inventory fetch
\* settles, either way, the loading flag is false afterwards.
C22_FailedFetchKeepsData ==
    [][/\ \A m \in Pending("files") :
             /\ \A outcome \in Failures :
                   FetchFilesSettles(m, outcome) => files' = files
             /\ \A outcome \in Outcomes :
                   FetchFilesSettles(m, outcome) => ~isLoading'
       /\ \A m \in Pending("stats") : \A outcome \in Failures :
             FetchStatsSettles(m, outcome) => stats' = stats
      ]_vars

\* a record was deleted and every stats fetch that settled since then has
\* failed: the snapshot still counts it; the list holds records, no fetch is
\* outstanding and the loading flag is false
C22_Witness ==
    /\ stats # <<>>
    /\ stats[1].totalFiles = Len(srvFiles) + 1
    /\ Pending("stats") = {}
    /\ Pending("files") = {}
    /\ files # <<>>
    /\ ~isLoading

Quiescent == net = EmptyBag /\ ~isUploading /\ ~isLoading

\* C23: with a network that settles every call, and the user stopping after
\* finitely many gestures, the page comes to rest: from some point on no
\* request is outstanding and the uploading flag and the loading flag are
\* false.
C23_EventuallyQuiescent == <>[]Quiescent

\* the page is at rest after two overlapping gestures, one of them an upload
\* that went through and was followed by its reload
C23_Witness ==
    /\ Quiescent
    /\ user
    /\ gestures >= 2
    /\ Len(srvFiles) = 4
    /\ Len(files) = 4

====
